---- MODULE Spec2Model ----
(***************************************************************************)
(* FlightRisk Monte Carlo core (src/cpp_core/simulation.cpp).              *)
(*                                                                         *)
(* Two exported functions are modelled, statement by statement:            *)
(*   simulate_gamma(shape, scale, iterations)            lines 33-49       *)
(*   calculate_risk(buffer_mins, traffic_avg, traffic_std,                 *)
(*                  tsa_shape, tsa_scale, walk_time, iterations)  63-94    *)
(*                                                                         *)
(* Numbers.  An argument is written in hundredths (10 is the decimal 0.1,  *)
(* -500 is -5.0; the shape of a Gamma distribution is a plain number).     *)
(* The function receives the double nearest to that decimal, Dbl(n), and   *)
(* every local of the code is a double, held exactly: a record             *)
(* [nan, neg, mag] whose magnitude is an integer number of units of 2^-60, *)
(* kept as three limbs of 24 bits.  Sums, differences and products are     *)
(* rounded to 53 significant bits, to nearest, ties to even, as IEEE 754   *)
(* binary64 does, so 0.1 + 0.2 is greater than 0.3 here as it is in the    *)
(* code.  The representation is exact for decimals of magnitude from 0.01  *)
(* up to 4095.99 and what the loop computes from them.  The quotient       *)
(* returned by calculate_risk is kept as the pair of its int operands,     *)
(* with the IEEE cases of a zero divisor.                                  *)
(*                                                                         *)
(* Randomness.  Every call seeds its own std::mt19937 from                 *)
(* std::random_device, so the variates a call sees are unconstrained:      *)
(* each draw is a nondeterministic choice, recorded in the call's own      *)
(* history (trials / ptr).                                                 *)
(***************************************************************************)
EXTENDS Integers, Sequences, FiniteSets

VARIABLES call

vars == <<call>>

\* ------------------------------------------------------------------ bounds

\* Largest iterations argument explored for a single call.
MaxIter == 3

\* Largest iterations argument explored for two runs stepped side by side.
MaxPairIter == 2

\* ---------------------------------------------------------------- threads

\* Host threads that may be inside the module at the same time.
Threads == {1, 2}

\* The single host thread of the sequential specification.
MainThread == {1}

\* ---------------------------------------------------------------- doubles

\* One limb of a magnitude holds 24 bits.
LimbBase == 2^24

\* The magnitude <<h, m, l>> is h * 2^48 + m * 2^24 + l units of 2^-60.
Zero == <<0, 0, 0>>

\* Limbs brought back under LimbBase, carries moved up.
Carry(h, m, l) ==
    LET m1 == m + (l \div LimbBase) IN
    <<h + (m1 \div LimbBase), m1 % LimbBase, l % LimbBase>>

MagAdd(a, b) == Carry(a[1] + b[1], a[2] + b[2], a[3] + b[3])

MagLt(a, b) ==
    \/ a[1] < b[1]
    \/ a[1] = b[1] /\ a[2] < b[2]
    \/ a[1] = b[1] /\ a[2] = b[2] /\ a[3] < b[3]

\* a - b for a >= b.
MagSub(a, b) ==
    LET l0 == a[3] - b[3]
        bl == IF l0 < 0 THEN 1 ELSE 0
        m0 == a[2] - b[2] - bl
        bm == IF m0 < 0 THEN 1 ELSE 0
    IN <<a[1] - b[1] - bm, m0 + bm * LimbBase, l0 + bl * LimbBase>>

\* a * k for a small k >= 0.
MagMul(a, k) == Carry(a[1] * k, a[2] * k, a[3] * k)

RECURSIVE BitLen(_)
BitLen(n) == IF n = 0 THEN 0 ELSE 1 + BitLen(n \div 2)

\* Number of significant bits of a magnitude.
MagBits(a) ==
    IF a[1] > 0 THEN 48 + BitLen(a[1])
    ELSE IF a[2] > 0 THEN 24 + BitLen(a[2]) ELSE BitLen(a[3])

\* IEEE 754 rounding of an exact magnitude to the 53 significant bits of a
\* double: to nearest, ties to even.  sticky: the exact value lies strictly
\* above a (bits were already dropped below the unit).
Round53(a, sticky) ==
    LET s == MagBits(a) - 53 IN
    IF s <= 0 THEN a
    ELSE LET p == 2^s
             r == a[3] % p
             half == p \div 2
             up == \/ r > half
                   \/ r = half /\ (sticky \/ (a[3] \div p) % 2 = 1)
         IN IF up THEN Carry(a[1], a[2], a[3] - r + p)
            ELSE <<a[1], a[2], a[3] - r>>

Abs(n) == IF n < 0 THEN 0 - n ELSE n

\* A finite double (zero carries no sign here).
Fin(neg, mag) == [nan |-> FALSE, neg |-> neg /\ mag # Zero, mag |-> mag]

\* The double a caller passes for the decimal n / 100: the nearest one.
Dbl(n) ==
    LET x1 == Abs(n) * 2^12
        x2 == (x1 % 100) * LimbBase
        x3 == (x2 % 100) * LimbBase
    IN Fin(n < 0, Round53(<<x1 \div 100, x2 \div 100, x3 \div 100>>,
                          x3 % 100 # 0))

\* The NaN a distribution may produce.
NaN == [nan |-> TRUE, neg |-> FALSE, mag |-> Zero]

\* operator+ on doubles: NaN is absorbing, the exact sum is rounded.
FAdd(a, b) ==
    IF a.nan \/ b.nan THEN NaN
    ELSE IF a.neg = b.neg
         THEN Fin(a.neg, Round53(MagAdd(a.mag, b.mag), FALSE))
    ELSE IF MagLt(a.mag, b.mag)
         THEN Fin(b.neg, Round53(MagSub(b.mag, a.mag), FALSE))
    ELSE Fin(a.neg, Round53(MagSub(a.mag, b.mag), FALSE))

\* Unary minus.
FNeg(a) == IF a.nan THEN a ELSE Fin(~a.neg, a.mag)

\* operator- on doubles.
FSub(a, b) == FAdd(a, FNeg(b))

\* A double times a variate that is a whole number k.
FMulInt(a, k) ==
    IF a.nan THEN NaN
    ELSE Fin(a.neg # (k < 0), Round53(MagMul(a.mag, Abs(k)), FALSE))

\* operator> on doubles: every comparison with NaN is false.
FGt(a, b) ==
    /\ ~a.nan
    /\ ~b.nan
    /\ \/ ~a.neg /\ b.neg
       \/ ~a.neg /\ ~b.neg /\ MagLt(b.mag, a.mag)
       \/ a.neg /\ b.neg /\ MagLt(a.mag, b.mag)

\* operator< on doubles.
FLt(a, b) == FGt(b, a)

\* operator>= in the place of operator>.
FGe(a, b) == ~a.nan /\ ~b.nan /\ ~FGt(b, a)

\* static_cast<double>(n) / d with int n, d: IEEE division, no trap.
DoubleDiv(n, d) ==
    IF d = 0
    THEN IF n = 0 THEN [kind |-> "nan", num |-> 0, den |-> 0]
                  ELSE [kind |-> "inf", num |-> n, den |-> 0]
    ELSE [kind |-> "finite", num |-> n, den |-> d]

\* ------------------------------------------------------- pieces of the code

\* 0.1, the first operand of std::max on line 81, in hundredths.
MinStd == 10

\* A floor of 0.0 in the place of the floor passed in.
StdMax_ZeroFloor(a, b) == IF FLt(Dbl(0), b) THEN b ELSE Dbl(0)

\* std::max(a, b) on doubles: returns a unless a < b.
StdMax(a, b) == IF FLt(a, b) THEN b ELSE a

\* A buffer clamped at zero.
EffectiveBuffer_Clamped(buffer_mins, walk_time) ==
    IF FLt(FSub(Dbl(buffer_mins), Dbl(walk_time)), Dbl(0)) THEN Dbl(0)
    ELSE FSub(Dbl(buffer_mins), Dbl(walk_time))

\* double effective_buffer = buffer_mins - walk_time; on the doubles passed
\* for the two arguments.
EffectiveBuffer(buffer_mins, walk_time) ==
    FSub(Dbl(buffer_mins), Dbl(walk_time))

\* The loop test with <= in the place of <.
LoopCond_Inclusive(i, iterations) == i <= iterations

\* The loop test of both for loops: i < iterations.
LoopCond(i, iterations) == i < iterations

\* The comparison reversed.
IsMiss_Reversed(t_traffic, t_tsa, effective_buffer) ==
    FGt(effective_buffer, FAdd(t_traffic, t_tsa))

\* The comparison made non-strict.
IsMiss_NonStrict(t_traffic, t_tsa, effective_buffer) ==
    FGe(FAdd(t_traffic, t_tsa), effective_buffer)

\* if ((t_traffic + t_tsa) > effective_buffer), on three doubles.
IsMiss(t_traffic, t_tsa, effective_buffer) ==
    FGt(FAdd(t_traffic, t_tsa), effective_buffer)

\* The index written one place too far.
WriteIndex_OffByOne(i) == i + 1

\* The index written by ptr[i] = ... on line 45.
WriteIndex(i) == i

\* The part of std::gamma_distribution's precondition (alpha > 0 and
\* beta > 0) that the sampling algorithm depends on, and the only part a
\* checked standard library asserts: alpha > 0.
ShapeInDomain(dist) == dist.alpha > 0

\* --------------------------------------------------------------- variates

\* Standard normal variates the engine may deliver (in units of one sigma).
ZDraws == {-1, 0, 1}

\* Standard gamma variates the engine may deliver (in units of one scale).
GUnits == {1, 2}

\* What a distribution built with alpha <= 0 may deliver.
UBDraws == {NaN, Dbl(0)}

\* What a build does with a distribution constructed with alpha <= 0: a
\* checked standard library stops the process at the constructor, an
\* unchecked one goes on with a meaningless distribution.
UBOutcomes == {"abort", "garbage"}

\* traffic_dist(gen): z * stddev + mean.
NormalDraw(dist, z) == FAdd(FMulInt(dist.stddev, z), dist.mean)

\* The values d(gen) / tsa_dist(gen) may return: a positive variate times
\* beta, whatever the sign of beta (a negative scale gives negative
\* values, it is neither checked nor refused).
GammaDraws(dist) ==
    IF ShapeInDomain(dist) THEN {FMulInt(dist.beta, g) : g \in GUnits}
    ELSE UBDraws

\* ----------------------------------------------------------------- inputs

\* 0.3 - 0.1 and 0.1 + 0.2 are among the values these give: neither is the
\* double nearest to its decimal result.
Buffers == {0, 30}
Walks == {0, 10}
TrafficAvgs == {0, 10}
TrafficStds == {-500, 0, 20}
Shapes == {0, 2}
Scales == {-10, 10}

NoArgs ==
    [buffer_mins |-> 0, traffic_avg |-> 0, traffic_std |-> 0, tsa_shape |-> 0,
     tsa_scale |-> 0, walk_time |-> 0, iterations |-> 0]

\* Argument lists of calculate_risk with iterations in lo..hi.
RiskArgs(lo, hi) ==
    [buffer_mins : Buffers, traffic_avg : TrafficAvgs, traffic_std : TrafficStds,
     tsa_shape : Shapes, tsa_scale : Scales, walk_time : Walks,
     iterations : lo..hi]

\* Argument lists of simulate_gamma (the other fields are unused).
GammaArgs(lo, hi) ==
    {[NoArgs EXCEPT !.tsa_shape = s, !.tsa_scale = c, !.iterations = n] :
        s \in Shapes, c \in Scales, n \in lo..hi}

\* ------------------------------------------------------------ call frames

\* The frame of a thread that is not inside the module.
Idle ==
    [pc |-> "idle", fn |-> "none", args |-> NoArgs,
     effective_buffer |-> Dbl(0),
     missed_flights |-> 0,
     traffic_dist |-> [mean |-> Dbl(0), stddev |-> Dbl(0)],
     tsa_dist |-> [alpha |-> 0, beta |-> Dbl(0)], i |-> 0, trials |-> <<>>,
     ptr |-> <<>>, writes |-> <<>>, oob |-> FALSE,
     ret |-> [kind |-> "none", num |-> 0, den |-> 0], exc |-> "none"]

\* calculate_risk, lines 72-82: the locals before the loop.
RiskEntry(a, ub) ==
    LET dist == [alpha |-> a.tsa_shape, beta |-> Dbl(a.tsa_scale)] IN
    [Idle EXCEPT
        !.pc = IF ~ShapeInDomain(dist) /\ ub = "abort" THEN "aborted"
                   ELSE "loop",
        !.fn = "calculate_risk",
        !.args = a,
        !.missed_flights = 0,
        !.effective_buffer = EffectiveBuffer(a.buffer_mins, a.walk_time),
        !.traffic_dist = [mean |-> Dbl(a.traffic_avg),
                          stddev |-> StdMax(Dbl(MinStd), Dbl(a.traffic_std))],
        !.tsa_dist = dist,
        !.i = 0]

\* calculate_risk, lines 85-90: one pass of the loop body, then i++.
RiskTrial(c, z, gd) ==
    LET t_traffic == NormalDraw(c.traffic_dist, z)
        t_tsa == gd
    IN [c EXCEPT
        !.missed_flights =
            IF IsMiss(t_traffic, t_tsa, c.effective_buffer) THEN @ + 1 ELSE @,
        !.trials = Append(@, [t_traffic |-> t_traffic, t_tsa |-> t_tsa]),
        !.i = @ + 1]

\* calculate_risk, line 93.
RiskExit(c) ==
    [c EXCEPT !.pc = "returned",
              !.ret = DoubleDiv(c.missed_flights, c.args.iterations)]

\* simulate_gamma, lines 34-41: the array and the distribution.  A negative
\* length makes py::array_t's constructor throw (NumPy refuses negative
\* dimensions) before anything else runs.
GammaEntry(a, ub) ==
    LET dist == [alpha |-> a.tsa_shape, beta |-> Dbl(a.tsa_scale)] IN
    IF a.iterations < 0
    THEN [Idle EXCEPT !.pc = "raised", !.fn = "simulate_gamma", !.args = a,
                      !.exc = "ValueError"]
    ELSE [Idle EXCEPT
            !.pc = IF ~ShapeInDomain(dist) /\ ub = "abort" THEN "aborted"
                   ELSE "loop",
            !.fn = "simulate_gamma",
            !.args = a,
            !.ptr = [k \in 1..a.iterations |-> Dbl(0)],
            !.writes = [k \in 1..a.iterations |-> 0],
            !.tsa_dist = dist,
            !.i = 0]

\* simulate_gamma, line 45: ptr[i] = d(gen); then i++.  Element k of the
\* C array is position k + 1 of the sequence.
GammaFill(c, gd) ==
    LET k == WriteIndex(c.i) + 1 IN
    IF k \in 1..Len(c.ptr)
    THEN [c EXCEPT !.ptr[k] = gd, !.writes[k] = @ + 1, !.i = @ + 1]
    ELSE [c EXCEPT !.oob = TRUE, !.i = @ + 1]

\* simulate_gamma, line 48.
GammaExit(c) == [c EXCEPT !.pc = "returned"]

\* ----------------------------------------------------------------- actions

Init == call = [t \in Threads |-> Idle]

CallRisk(t, a, ub) ==
    /\ call[t].pc = "idle"
    /\ call' = [call EXCEPT ![t] = RiskEntry(a, ub)]

\* The loop body with missed_flights as one counter for every call.
Trial_SharedCounter(t, z, gd) ==
    /\ call[t].pc = "loop"
    /\ call[t].fn = "calculate_risk"
    /\ LoopCond(call[t].i, call[t].args.iterations)
    /\ LET n == RiskTrial(call[t], z, gd) IN
       call' = [u \in Threads |->
                  IF u = t THEN n
                  ELSE [call[u] EXCEPT !.missed_flights =
                          @ + (n.missed_flights - call[t].missed_flights)]]

Trial(t, z, gd) ==
    /\ call[t].pc = "loop"
    /\ call[t].fn = "calculate_risk"
    /\ LoopCond(call[t].i, call[t].args.iterations)
    /\ call' = [call EXCEPT ![t] = RiskTrial(call[t], z, gd)]

RiskReturn(t) ==
    /\ call[t].pc = "loop"
    /\ call[t].fn = "calculate_risk"
    /\ ~LoopCond(call[t].i, call[t].args.iterations)
    /\ call' = [call EXCEPT ![t] = RiskExit(call[t])]

CallGamma(t, a, ub) ==
    /\ call[t].pc = "idle"
    /\ call' = [call EXCEPT ![t] = GammaEntry(a, ub)]

Fill(t, gd) ==
    /\ call[t].pc = "loop"
    /\ call[t].fn = "simulate_gamma"
    /\ LoopCond(call[t].i, call[t].args.iterations)
    /\ call' = [call EXCEPT ![t] = GammaFill(call[t], gd)]

GammaReturn(t) ==
    /\ call[t].pc = "loop"
    /\ call[t].fn = "simulate_gamma"
    /\ ~LoopCond(call[t].i, call[t].args.iterations)
    /\ call' = [call EXCEPT ![t] = GammaExit(call[t])]

\* One host thread, one call.
Next ==
    \E t \in MainThread :
        \/ \E a \in RiskArgs(-1, MaxIter), ub \in UBOutcomes : CallRisk(t, a, ub)
        \/ \E z \in ZDraws, gd \in GammaDraws(call[t].tsa_dist) : Trial(t, z, gd)
        \/ RiskReturn(t)
        \/ \E a \in GammaArgs(-1, MaxIter), ub \in UBOutcomes : CallGamma(t, a, ub)
        \/ \E gd \in GammaDraws(call[t].tsa_dist) : Fill(t, gd)
        \/ GammaReturn(t)

Spec == Init /\ [][Next]_vars

\* ------------------------------------------- two runs on identical draws

\* Two calls of calculate_risk that differ in buffer_mins and walk_time only.
PairCall ==
    /\ \A t \in Threads : call[t].pc = "idle"
    /\ \E a \in RiskArgs(0, MaxPairIter), b \in Buffers, w \in Walks,
          ub \in UBOutcomes :
         call' = [t \in Threads |->
                    IF t = 1 THEN RiskEntry(a, ub)
                    ELSE RiskEntry([a EXCEPT !.buffer_mins = b, !.walk_time = w], ub)]

\* Both runs execute the loop body on the same variates.
PairTrial ==
    /\ \A t \in Threads :
         /\ call[t].pc = "loop"
         /\ LoopCond(call[t].i, call[t].args.iterations)
    /\ \E z \in ZDraws, gd \in GammaDraws(call[1].tsa_dist) :
         call' = [t \in Threads |-> RiskTrial(call[t], z, gd)]

\* Both runs leave the loop and return.
PairReturn ==
    /\ \A t \in Threads :
         /\ call[t].pc = "loop"
         /\ ~LoopCond(call[t].i, call[t].args.iterations)
    /\ call' = [t \in Threads |-> RiskExit(call[t])]

NextPair == PairCall \/ PairTrial \/ PairReturn

SpecPair == Init /\ [][NextPair]_vars

\* ---------------------------------------------------- concurrent callers

\* Arguments of the calls made concurrently.
ConcRiskArgs ==
    {a \in RiskArgs(1, 2) :
        /\ a.traffic_avg = 0 /\ a.traffic_std = 0 /\ a.walk_time = 0
        /\ a.tsa_shape = 2 /\ a.tsa_scale = 10}

ConcGammaArgs == {a \in GammaArgs(0, 2) : a.tsa_shape = 2 /\ a.tsa_scale = 10}

\* Two host threads, each making one call, interleaved statement by statement.
NextConc ==
    \E t \in Threads :
        \/ \E a \in ConcRiskArgs, ub \in UBOutcomes : CallRisk(t, a, ub)
        \/ \E z \in ZDraws, gd \in GammaDraws(call[t].tsa_dist) : Trial(t, z, gd)
        \/ RiskReturn(t)
        \/ \E a \in ConcGammaArgs, ub \in UBOutcomes : CallGamma(t, a, ub)
        \/ \E gd \in GammaDraws(call[t].tsa_dist) : Fill(t, gd)
        \/ GammaReturn(t)

SpecConc == Init /\ [][NextConc]_vars

\* ------------------------------------------------------------- properties

\* t_traffic + t_tsa of a recorded trial.
Total(tr) == FAdd(tr.t_traffic, tr.t_tsa)

\* The double buffer_mins - walk_time of frame c's arguments.
Threshold(c) == FSub(Dbl(c.args.buffer_mins), Dbl(c.args.walk_time))

\* Trials of frame c whose total is strictly greater than the double b.
Above(c, b) == {k \in 1..Len(c.trials) : FGt(Total(c.trials[k]), b)}

\* Trials of frame c whose total is zero or positive.
NonNegative(c) ==
    {k \in 1..Len(c.trials) :
        ~Total(c.trials[k]).nan /\ ~Total(c.trials[k]).neg}

\* The arguments' Gamma parameters lie in the distribution's domain.
ValidArgs(c) == c.args.tsa_shape > 0 /\ c.args.tsa_scale > 0

InRisk(c) == c.fn = "calculate_risk"

InGamma(c) == c.fn = "simulate_gamma"

\* The call is over: it returned, or it threw.
Over(c) == c.pc \in {"returned", "raised"}

\* C1: for iterations >= 1 and Gamma parameters in their domain,
\* calculate_risk is not refused and what it returns is a finite quotient
\* missed / iterations with 0 <= missed <= iterations, i.e. a value in
\* [0.0, 1.0], whatever the draws were.
C1_RiskInUnitInterval ==
    \A t \in Threads :
        LET c == call[t] IN
        (InRisk(c) /\ c.args.iterations >= 1 /\ ValidArgs(c)) =>
            /\ c.pc \in {"loop", "returned"}
            /\ c.pc = "returned" =>
                 /\ c.ret.kind = "finite"
                 /\ c.ret.den > 0
                 /\ 0 <= c.ret.num
                 /\ c.ret.num <= c.ret.den

\* A call with two or more trials, every one a miss: the estimate is 1.0.
C1_Witness ==
    \E t \in Threads :
        LET c == call[t] IN
        /\ InRisk(c) /\ ValidArgs(c) /\ c.pc = "returned"
        /\ c.args.iterations >= 2
        /\ c.ret.num = c.ret.den

\* C2: a calculate_risk call with iterations < 1 ends by throwing
\* InvalidParameterError, having drawn nothing and having produced no
\* numeric result.
C2_NonPositiveTrialCountRejected ==
    \A t \in Threads :
        LET c == call[t] IN
        (InRisk(c) /\ c.args.iterations < 1 /\ Over(c)) =>
            /\ c.pc = "raised"
            /\ c.exc = "InvalidParameterError"
            /\ c.trials = <<>>
            /\ c.ret.kind = "none"

\* C3: a call of either function with Gamma shape <= 0 or scale <= 0 (and
\* at least one sample asked for) ends by throwing InvalidParameterError,
\* with no trial run and no array element written.
C3_InvalidGammaRejected ==
    \A t \in Threads :
        LET c == call[t] IN
        ((InRisk(c) \/ InGamma(c)) /\ ~ValidArgs(c)
            /\ c.args.iterations >= 1 /\ Over(c)) =>
            /\ c.pc = "raised"
            /\ c.exc = "InvalidParameterError"
            /\ c.trials = <<>>
            /\ \A k \in 1..Len(c.writes) : c.writes[k] = 0

\* C4: for iterations >= 1, calculate_risk runs one trial per loop pass,
\* exactly iterations of them by the time it returns, counts exactly the
\* trials whose total is strictly greater than buffer_mins - walk_time (a
\* total equal to it is not counted), and returns that count over
\* iterations.
C4_ExactMissFraction ==
    \A t \in Threads :
        LET c == call[t]
            b == Threshold(c)
        IN (InRisk(c) /\ c.args.iterations >= 1 /\ c.pc \in {"loop", "returned"}) =>
            /\ Len(c.trials) = c.i
            /\ c.i <= c.args.iterations
            /\ c.missed_flights = Cardinality(Above(c, b))
            /\ c.pc = "returned" =>
                 /\ Len(c.trials) = c.args.iterations
                 /\ c.ret = [kind |-> "finite",
                             num |-> Cardinality(Above(c, b)),
                             den |-> c.args.iterations]

\* A returned call with a trial whose total equals the buffer exactly (not
\* counted) and a trial above it (counted).
C4_Witness ==
    \E t \in Threads :
        LET c == call[t]
            b == Threshold(c)
        IN /\ InRisk(c) /\ c.pc = "returned"
           /\ \E k \in 1..Len(c.trials) : Total(c.trials[k]) = b
           /\ c.ret.num >= 1
           /\ c.ret.num < c.ret.den

\* C5: the standard deviation of calculate_risk's traffic distribution is
\* 0.1 for every traffic_std <= 0.1 (zero and negative values included) and
\* traffic_std itself above 0.1; every traffic draw is mean + that spread
\* times a standard variate; and the call is not refused.
C5_ClampedSpread ==
    \A t \in Threads :
        LET c == call[t]
            eff == IF c.args.traffic_std <= MinStd THEN MinStd
                   ELSE c.args.traffic_std
        IN InRisk(c) =>
            /\ c.pc # "raised"
            /\ c.traffic_dist.stddev = Dbl(eff)
            /\ \A k \in 1..Len(c.trials) :
                 \E z \in ZDraws :
                    c.trials[k].t_traffic =
                        FAdd(FMulInt(Dbl(eff), z), Dbl(c.args.traffic_avg))

\* A returned call given traffic_std = -5.0 whose traffic draws sit 0.1 on
\* either side of the mean.
C5_Witness ==
    \E t \in Threads :
        LET c == call[t] IN
        /\ InRisk(c) /\ c.pc = "returned"
        /\ c.args.traffic_std = -500
        /\ c.traffic_dist.stddev = Dbl(MinStd)
        /\ \E k \in 1..Len(c.trials) :
             c.trials[k].t_traffic = FAdd(Dbl(MinStd), Dbl(c.args.traffic_avg))
        /\ \E k \in 1..Len(c.trials) :
             c.trials[k].t_traffic = FAdd(Dbl(0 - MinStd), Dbl(c.args.traffic_avg))

\* C6: for iterations >= 0 and Gamma parameters in their domain,
\* simulate_gamma is not refused, its array has exactly iterations
\* elements, nothing is written outside it, after i loop passes elements
\* 0..i-1 have been written once each and the others not at all, and on
\* return every element has been written exactly once (none, for
\* iterations = 0).
C6_ArrayFilledOnce ==
    \A t \in Threads :
        LET c == call[t] IN
        (InGamma(c) /\ c.args.iterations >= 0 /\ ValidArgs(c)) =>
            /\ c.pc \in {"loop", "returned"}
            /\ ~c.oob
            /\ Len(c.ptr) = c.args.iterations
            /\ Len(c.writes) = c.args.iterations
            /\ \A k \in 1..Len(c.writes) :
                 c.writes[k] = IF k <= c.i THEN 1 ELSE 0
            /\ c.pc = "returned" => c.i = c.args.iterations

\* A returned array of two or more elements, each a positive variate.
C6_Witness ==
    \E t \in Threads :
        LET c == call[t] IN
        /\ InGamma(c) /\ ValidArgs(c) /\ c.pc = "returned"
        /\ c.args.iterations >= 2
        /\ \A k \in 1..Len(c.ptr) : FGt(c.ptr[k], Dbl(0))

\* C7: with walk_time > buffer_mins (and iterations >= 1, Gamma parameters
\* in their domain) calculate_risk is not refused; it returns after
\* iterations trials the fraction of trials whose total exceeds the
\* negative buffer, which counts every trial with a non-negative total.
C7_NegativeBufferHandled ==
    \A t \in Threads :
        LET c == call[t]
            b == Threshold(c)
        IN (InRisk(c) /\ c.args.walk_time > c.args.buffer_mins
                /\ c.args.iterations >= 1 /\ ValidArgs(c)) =>
            /\ c.pc \in {"loop", "returned"}
            /\ c.pc = "returned" =>
                 /\ Len(c.trials) = c.args.iterations
                 /\ c.ret.kind = "finite"
                 /\ c.ret.den = c.args.iterations
                 /\ c.ret.num = Cardinality(Above(c, b))
                 /\ c.ret.num >= Cardinality(NonNegative(c))

\* A returned call with a negative buffer, a trial whose total is exactly
\* zero and a trial whose total does not exceed the buffer.
C7_Witness ==
    \E t \in Threads :
        LET c == call[t]
            b == Threshold(c)
        IN /\ InRisk(c) /\ ValidArgs(c) /\ c.pc = "returned"
           /\ c.args.walk_time > c.args.buffer_mins
           /\ \E k \in 1..Len(c.trials) : Total(c.trials[k]) = Dbl(0)
           /\ \E k \in 1..Len(c.trials) : Total(c.trials[k]) = b
           /\ c.ret.num >= 1
           /\ c.ret.num < c.ret.den

\* C8: of two calculate_risk runs with the same arguments but buffer_mins
\* and walk_time, stepped on the same draws, a run whose buffer_mins is no
\* larger and whose walk_time is no smaller than the other's, or whose
\* double buffer_mins - walk_time is no larger, has at every point at least
\* as many misses, and returns an estimate at least as large.
C8_Monotone ==
    LET a1 == call[1].args
        a2 == call[2].args
    IN (/\ InRisk(call[1])
        /\ InRisk(call[2])
        /\ \/ a1.buffer_mins <= a2.buffer_mins /\ a1.walk_time >= a2.walk_time
           \/ ~FGt(Threshold(call[1]), Threshold(call[2]))) =>
        /\ call[1].missed_flights >= call[2].missed_flights
        /\ (call[1].pc = "returned" /\ call[2].pc = "returned"
                /\ call[1].args.iterations >= 1) =>
             /\ call[1].ret.den = call[2].ret.den
             /\ call[1].ret.num >= call[2].ret.num

\* Two returned runs on the same draws where the smaller buffer gave a
\* strictly larger estimate.
C8_Witness ==
    /\ call[1].pc = "returned" /\ call[2].pc = "returned"
    /\ InRisk(call[1]) /\ InRisk(call[2])
    /\ call[1].trials = call[2].trials
    /\ call[1].trials # <<>>
    /\ FLt(Threshold(call[1]), Threshold(call[2]))
    /\ call[1].ret.num > call[2].ret.num

\* The boundary configuration of C9: buffer_mins = walk_time, traffic mean
\* 0 with a spread at or under the floor, a Gamma checkpoint delay in its
\* domain, at least one trial.
C9_Boundary(c) ==
    /\ InRisk(c) /\ c.pc = "returned"
    /\ c.args.buffer_mins = c.args.walk_time
    /\ c.args.traffic_avg = 0
    /\ c.args.traffic_std <= MinStd
    /\ ValidArgs(c)
    /\ c.args.iterations >= 1

\* C9 as claimed: at the boundary, when every trial's total is within 0.1
\* of zero, no trial is counted as a miss (the estimate is 0.0).
C9_NearZeroTotalsNotMissed ==
    \A t \in Threads :
        LET c == call[t] IN
        (C9_Boundary(c)
            /\ \A k \in 1..Len(c.trials) :
                 /\ FGe(Dbl(MinStd), Total(c.trials[k]))
                 /\ FGe(Total(c.trials[k]), Dbl(0 - MinStd))) =>
            c.ret.num = 0

\* C9 as amended: at the boundary the estimate is the fraction of trials
\* whose total is strictly positive; a total of exactly zero or below is
\* not a miss, any positive total is.
C9_ZeroBufferCountsPositiveTotals ==
    \A t \in Threads :
        LET c == call[t] IN
        C9_Boundary(c) =>
            /\ c.ret.kind = "finite"
            /\ c.ret.den = c.args.iterations
            /\ c.ret.num = Cardinality(Above(c, Dbl(0)))

\* A boundary call with a trial of total exactly zero (not counted) and a
\* trial of total 0.1 (counted).
C9_Witness ==
    \E t \in Threads :
        LET c == call[t] IN
        /\ C9_Boundary(c)
        /\ \E k \in 1..Len(c.trials) : Total(c.trials[k]) = Dbl(0)
        /\ \E k \in 1..Len(c.trials) : Total(c.trials[k]) = Dbl(MinStd)
        /\ c.ret.num >= 1
        /\ c.ret.num < c.ret.den

\* What a frame's result must be, computed from that frame alone.
ResultOwn(c) ==
    /\ (InRisk(c) /\ c.pc \in {"loop", "returned"}) =>
         /\ c.missed_flights = Cardinality(Above(c, Threshold(c)))
         /\ Len(c.trials) = c.i
    /\ (InRisk(c) /\ c.pc = "returned") =>
         c.ret = DoubleDiv(Cardinality(Above(c, Threshold(c))),
                           c.args.iterations)
    /\ (InGamma(c) /\ c.pc \in {"loop", "returned"}) =>
         /\ Len(c.ptr) = c.args.iterations
         /\ \A k \in 1..Len(c.writes) : c.writes[k] = IF k <= c.i THEN 1 ELSE 0

\* C10: under every interleaving of two concurrent calls, a step of one
\* call changes nothing of the other call's frame (engine draws, counters,
\* output array), and each call's counters and result are those determined
\* by its own arguments and its own draws.
C10_CallsIsolated ==
    [][/\ \A t \in Threads :
            call'[t] # call[t] =>
                \A u \in Threads \ {t} : call'[u] = call[u]
       /\ \A t \in Threads : ResultOwn(call'[t])]_vars

\* Two calls of calculate_risk on the same arguments, both in the middle of
\* their loops at once, with different draws and different counts.
C10_Witness ==
    /\ InRisk(call[1]) /\ InRisk(call[2])
    /\ call[1].pc = "loop" /\ call[2].pc = "loop"
    /\ call[1].args = call[2].args
    /\ call[1].i >= 1 /\ call[1].i < call[1].args.iterations
    /\ call[2].i >= 1 /\ call[2].i < call[2].args.iterations
    /\ call[1].trials # call[2].trials
    /\ call[1].missed_flights = 1
    /\ call[2].missed_flights = 0

====
